---------------------------- MODULE Spec2Model ----------------------------
(***************************************************************************)
(* A model of the Raft key-value node of demo/python/raft.py: a cluster of *)
(* RaftNode processes joined by a network that may delay, reorder and lose *)
(* messages.  Wall-clock time is abstracted: a deadline may expire at any  *)
(* step, so the timeout actions are enabled whenever their role guard is.  *)
(***************************************************************************)
EXTENDS Integers, Sequences, FiniteSets, Bags, TLC

VARIABLES
    raft,       \* raft[n]: the fields of the RaftNode (with its Net, Log, KVStore) of process n
    net,        \* messages in flight towards a node
    toClient,   \* bag of the messages sent to clients
    reqs,       \* number of client requests issued so far (the clients' msg_id counter)
    elected,    \* history: <<node, term>> for every become_leader
    committed,  \* history: entries a leader's advance_commit_index covered, with the leader's term
    acked,      \* history: <<leader, term, follower, index>> for every successful append_entries_res
    step,       \* number of scheduled environment events so far (runs with a schedule)
    applied     \* history: applied[n] lists the [index, op] node n handed to KVStore.apply

vars == <<raft, net, toClient, reqs, elected, committed, acked, step, applied>>

(***************************************************************************)
(* Bounds of the model.                                                    *)
(***************************************************************************)
MaxTerm == 2
MaxReqs == 1
MaxMsgId == 4
MaxNet == 2
MaxLiveMsgId == 32
MaxLiveNet == 12

Keys == {"x"}
Vals == {1, 2}

Range(f) == {f[i] : i \in DOMAIN f}

\* The processes of the cluster
Nodes == DOMAIN raft

Nil == "nil"
NoMap == [none |-> TRUE]
NoOp == [type |-> "none"]

Max(a, b) == IF a < b THEN b ELSE a
Min(a, b) == IF a < b THEN a ELSE b

(***************************************************************************)
(* Utilities                                                               *)
(***************************************************************************)
majority(n) == (n \div 2) + 1

RECURSIVE Insert(_, _)
Insert(x, s) ==
    IF s = <<>> THEN <<x>>
    ELSE IF x <= Head(s) THEN <<x>> \o s
    ELSE <<Head(s)>> \o Insert(x, Tail(s))

RECURSIVE sort(_)
sort(xs) == IF xs = <<>> THEN <<>> ELSE Insert(Head(xs), sort(Tail(xs)))

\* a median that leans to the higher value on a tie
median_upper(xs) == sort(xs)[majority(Len(xs))]

\* xs[len(xs) - majority(len(xs))] of the sorted list, 0-based in the source
median(xs) == sort(xs)[(Len(xs) - majority(Len(xs))) + 1]

(***************************************************************************)
(* Log: a sequence of entries [term, op]; index 1 is the default entry.    *)
(***************************************************************************)
NewLog == <<[term |-> 0, op |-> NoOp]>>

size(lg) == Len(lg)

\* entries[i - 1]: Python indexes from the end for a negative subscript, so
\* get(0) is the last entry.  InRange says whether the subscript exists.
InRange(lg, i) == (1 <= i /\ i <= Len(lg)) \/ (i <= 0 /\ 1 - i <= Len(lg))
get(lg, i) == IF i >= 1 THEN lg[i] ELSE lg[Len(lg) + i]

append(lg, entries) == lg \o entries

last(lg) == lg[Len(lg)]

last_term(lg) == last(lg).term

\* a truncate that keeps one entry less
truncate_short(lg, n) == SubSeq(lg, 1, Min(n, Len(lg)) - 1)

truncate(lg, n) == SubSeq(lg, 1, Min(n, Len(lg)))

\* entries[i - 1:], for i >= 1 (i <= 0 raises)
from_index(lg, i) == SubSeq(lg, i, Len(lg))

(***************************************************************************)
(* KVStore.apply: the new state and the response message.                  *)
(***************************************************************************)
Has(kv, k) == k \in DOMAIN kv
Put(kv, k, v) == [x \in (DOMAIN kv) \cup {k} |-> IF x = k THEN v ELSE kv[x]]

apply_res(kv, op) ==
    IF op.type = "read" THEN
        IF Has(kv, op.key) THEN [type |-> "read_ok", value |-> kv[op.key]]
        ELSE [type |-> "error", code |-> 20]
    ELSE IF op.type = "write" THEN [type |-> "write_ok"]
    ELSE IF ~Has(kv, op.key) THEN [type |-> "error", code |-> 20]
    ELSE IF kv[op.key] # op.from THEN [type |-> "error", code |-> 22]
    ELSE [type |-> "cas_ok"]

\* a cas that stores the new value whatever the old one
apply_state_any_from(kv, op) ==
    IF op.type = "write" THEN Put(kv, op.key, op.value)
    ELSE IF op.type = "cas" /\ Has(kv, op.key) THEN Put(kv, op.key, op.to)
    ELSE kv

apply_state(kv, op) ==
    IF op.type = "write" THEN Put(kv, op.key, op.value)
    ELSE IF op.type = "cas" /\ Has(kv, op.key) /\ kv[op.key] = op.from
        THEN Put(kv, op.key, op.to)
    ELSE kv

apply(kv, op) ==
    [state |-> apply_state(kv, op),
     msg |-> [dest |-> op.client,
              body |-> apply_res(kv, op) @@ [in_reply_to |-> op.msg_id]]]

(***************************************************************************)
(* RaftNode.__init__                                                       *)
(***************************************************************************)
NewNode ==
    [state |-> "nascent", current_term |-> 0, voted_for |-> Nil,
     commit_index |-> 0, last_applied |-> 1, leader |-> Nil,
     next_index |-> NoMap, match_index |-> NoMap,
     node_id |-> Nil, node_ids |-> <<>>,
     log |-> NewLog, kv |-> <<>>,
     next_msg_id |-> 0, callbacks |-> <<>>, votes |-> {}]

(***************************************************************************)
(* Net: send, reply, rpc.  A handler or loop action runs on a context      *)
(* [s, out]: the node's fields and the messages it has written to stdout.  *)
(***************************************************************************)
Ctx(s) == [s |-> s, out |-> {}, pushed |-> FALSE]

\* reset_step_down_deadline: the deadlines are wall-clock times; the context
\* records in pushed that the handler has set the step-down deadline anew
reset_step_down_deadline(c) == [c EXCEPT !.pushed = TRUE]

send(c, dest, body) ==
    [c EXCEPT !.out = @ \cup {[src |-> c.s.node_id, dest |-> dest, body |-> body]}]

reply(c, req, body) ==
    send(c, req.src, body @@ [in_reply_to |-> req.body.msg_id])

rpc(c, dest, body, handler) ==
    LET msg_id == c.s.next_msg_id
        c1 == [c EXCEPT !.s.next_msg_id = msg_id + 1,
                        !.s.callbacks = (msg_id :> handler) @@ @]
    IN  send(c1, dest, body @@ [msg_id |-> msg_id])

(***************************************************************************)
(* RaftNode: helpers and role transitions                                  *)
(***************************************************************************)
\* node_ids is None until init: list(None) raises
HasNodeIds(s) == s.node_ids # <<>>

other_nodes(s) == SelectSeq(s.node_ids, LAMBDA x : x # s.node_id)

OtherSet(s) == {other_nodes(s)[i] : i \in 1..Len(other_nodes(s))}

\* the values of match_index(): the stored map plus our own log size
match_index(s) ==
    [i \in 1..(Len(other_nodes(s)) + 1) |->
        IF i <= Len(other_nodes(s)) THEN s.match_index[other_nodes(s)[i]]
        ELSE size(s.log)]

RECURSIVE brpc_to(_, _, _, _)
brpc_to(c, nodes, body, handler) ==
    IF nodes = <<>> THEN c
    ELSE brpc_to(rpc(c, Head(nodes), body, handler), Tail(nodes), body, handler)

brpc(c, body, handler) == brpc_to(c, other_nodes(c.s), body, handler)

\* raises (leaving the node as it is) unless current_term < term
\* advance_term without its check
advance_term_unchecked(s, term) == [s EXCEPT !.current_term = term, !.voted_for = Nil]

advance_term(s, term) ==
    IF ~(s.current_term < term) THEN s
    ELSE [s EXCEPT !.current_term = term, !.voted_for = Nil]

\* a follower that keeps the maps it had as leader
become_follower_keeping(s) == [s EXCEPT !.state = "follower", !.leader = Nil]

become_follower(s) ==
    [s EXCEPT !.state = "follower", !.next_index = NoMap,
              !.match_index = NoMap, !.leader = Nil]

\* a step down on an equal term as well, which forgets the vote of the term
maybe_step_down_eager(s, remote_term) ==
    IF s.current_term <= remote_term
    THEN become_follower([s EXCEPT !.current_term = remote_term, !.voted_for = Nil])
    ELSE s

maybe_step_down(s, remote_term) ==
    IF s.current_term < remote_term
    THEN become_follower(advance_term(s, remote_term))
    ELSE s

become_leader(s) ==
    [s EXCEPT !.state = "leader", !.leader = Nil,
              !.next_index = [n \in OtherSet(s) |-> size(s.log) + 1],
              !.match_index = [n \in OtherSet(s) |-> 0]]

\* The closure handle of request_votes captures term and the set votes; a
\* node calls request_votes once per term, and handle touches votes only
\* when its term is the current term, so the field votes is that set.
request_votes(c) ==
    LET s == c.s
        c1 == [c EXCEPT !.s.votes = {s.node_id}]
    IN  brpc(c1,
             [type |-> "request_vote", term |-> s.current_term,
              candidate_id |-> s.node_id, last_log_index |-> size(s.log),
              last_log_term |-> last(s.log).term],
             [kind |-> "handle", term |-> s.current_term])

\* On a node that never saw init, other_nodes raises inside request_votes:
\* the assignments before it stay.
become_candidate(c) ==
    LET s1 == [c.s EXCEPT !.state = "candidate"]
        s2 == advance_term(s1, s1.current_term + 1)
        s3 == [s2 EXCEPT !.voted_for = s2.node_id, !.leader = Nil]
    IN  IF HasNodeIds(s3) THEN request_votes([reset_step_down_deadline(c) EXCEPT !.s = s3])
        ELSE [reset_step_down_deadline(c) EXCEPT !.s = s3]

\* a vote counted whether it was granted or not
handle_any_answer(c, cb, response) ==
    LET body == response.body
        s1 == maybe_step_down(c.s, body.term)
    IN  IF /\ s1.state = "candidate"
           /\ s1.current_term = cb.term
           /\ body.term = s1.current_term
        THEN LET s2 == [s1 EXCEPT !.votes = @ \cup {response.src}]
             IN  IF majority(Len(s2.node_ids)) <= Cardinality(s2.votes)
                 THEN [reset_step_down_deadline(c) EXCEPT !.s = become_leader(s2)]
                 ELSE [reset_step_down_deadline(c) EXCEPT !.s = s2]
        ELSE [reset_step_down_deadline(c) EXCEPT !.s = s1]

\* request_votes.handle
\* a vote counted whatever the node's role
handle_any_role(c, cb, response) ==
    LET body == response.body
        s1 == maybe_step_down(c.s, body.term)
    IN  IF /\ s1.current_term = cb.term
           /\ body.term = s1.current_term
           /\ body.vote_granted
        THEN LET s2 == [s1 EXCEPT !.votes = @ \cup {response.src}]
             IN  IF majority(Len(s2.node_ids)) <= Cardinality(s2.votes)
                 THEN [reset_step_down_deadline(c) EXCEPT !.s = become_leader(s2)]
                 ELSE [reset_step_down_deadline(c) EXCEPT !.s = s2]
        ELSE [reset_step_down_deadline(c) EXCEPT !.s = s1]

handle(c, cb, response) ==
    LET body == response.body
        s1 == maybe_step_down(c.s, body.term)
    IN  IF /\ s1.state = "candidate"
           /\ s1.current_term = cb.term
           /\ body.term = s1.current_term
           /\ body.vote_granted
        THEN LET s2 == [s1 EXCEPT !.votes = @ \cup {response.src}]
             IN  IF majority(Len(s2.node_ids)) <= Cardinality(s2.votes)
                 THEN [reset_step_down_deadline(c) EXCEPT !.s = become_leader(s2)]
                 ELSE [reset_step_down_deadline(c) EXCEPT !.s = s2]
        ELSE [reset_step_down_deadline(c) EXCEPT !.s = s1]

\* replicate_log.handler: cb holds term and the cells _node, _ni, _entries
handler(c, cb, res) ==
    LET body == res.body
        s1 == maybe_step_down(c.s, body.term)
    IN  IF s1.state = "leader" /\ cb.term = s1.current_term
        THEN IF body.success
             THEN [reset_step_down_deadline(c) EXCEPT !.s =
                    [s1 EXCEPT !.next_index[cb.node] = Max(@, cb.ni + cb.len),
                               !.match_index[cb.node] = Max(@, (cb.ni - 1) + cb.len)]]
             ELSE [reset_step_down_deadline(c) EXCEPT !.s = [s1 EXCEPT !.next_index[cb.node] = @ - 1]]
        ELSE [c EXCEPT !.s = s1]

(***************************************************************************)
(* Message handlers (setup_handlers)                                       *)
(***************************************************************************)
\* raises when the node is not nascent
raft_init(c, msg) ==
    IF c.s.state # "nascent" THEN c
    ELSE LET s1 == [c.s EXCEPT !.node_id = msg.body.node_id,
                               !.node_ids = msg.body.node_ids]
         IN  reply([c EXCEPT !.s = become_follower(s1)], msg, [type |-> "init_ok"])

\* a vote granted without looking at voted_for
grant_vote_again(s, body) ==
    /\ ~(body.term < s.current_term)
    /\ ~(body.last_log_term < last(s.log).term)
    /\ ~(body.last_log_term = last(s.log).term /\ body.last_log_index < size(s.log))

\* a vote granted whatever the candidate's log
grant_vote_any_log(s, body) ==
    /\ ~(body.term < s.current_term)
    /\ s.voted_for = Nil

grant_vote(s, body) ==
    /\ ~(body.term < s.current_term)
    /\ s.voted_for = Nil
    /\ ~(body.last_log_term < last(s.log).term)
    /\ ~(body.last_log_term = last(s.log).term /\ body.last_log_index < size(s.log))

request_vote(c, msg) ==
    LET body == msg.body
        s1 == maybe_step_down(c.s, body.term)
        grant == grant_vote(s1, body)
        s2 == IF grant THEN [s1 EXCEPT !.voted_for = body.candidate_id] ELSE s1
    IN  reply([c EXCEPT !.s = s2], msg,
              [type |-> "request_vote_res", term |-> s2.current_term,
               vote_granted |-> grant])

\* the log after the truncate-and-append of an accepted append_entries
accept_entries(lg, body) == append(truncate(lg, body.prev_log_index), body.entries)

\* the commit pointer after an accepted append_entries
advance_commit(s, body) ==
    IF s.commit_index < body.leader_commit
    THEN Min(body.leader_commit, size(s.log))
    ELSE s.commit_index

\* only an entry of another term at prev_log_index is a disagreement
disagrees_on_term(s, body) ==
    /\ InRange(s.log, body.prev_log_index)
    /\ get(s.log, body.prev_log_index).term # body.prev_log_term

\* we have no entry at prev_log_index, or one of another term
disagrees(s, body) ==
    \/ ~InRange(s.log, body.prev_log_index)
    \/ get(s.log, body.prev_log_index).term # body.prev_log_term

\* no sender is ever taken to be behind
behind_never(s, body) == FALSE

\* the sender's term is lower than ours
behind(s, body) == body.term < s.current_term

append_entries(c, msg) ==
    LET body == msg.body
        s1 == maybe_step_down(c.s, body.term)
        res == [type |-> "append_entries_res", term |-> s1.current_term,
                success |-> FALSE]
        s2 == [s1 EXCEPT !.leader = body.leader_id]
    IN  IF behind(s1, body) THEN
            \* Leader is behind us
            reply([c EXCEPT !.s = s1], msg, res)
        ELSE IF body.prev_log_index <= 0 THEN
            \* raises: no reply
            [c EXCEPT !.s = s2]
        ELSE IF disagrees(s2, body) THEN
            \* We disagree on the previous term
            reply([c EXCEPT !.s = s2], msg, res)
        ELSE
            LET s3 == [s2 EXCEPT !.log = accept_entries(@, body)]
                s4 == [s3 EXCEPT !.commit_index = advance_commit(s3, body)]
            IN  reply([c EXCEPT !.s = s4], msg, [res EXCEPT !.success = TRUE])

\* an entry stamped with the term after the leader's
kv_entry_ahead(s, msg) == [term |-> s.current_term + 1, op |-> [client |-> msg.src] @@ msg.body]

\* an entry stamped with term 0 whatever the leader's term
kv_entry_unstamped(s, msg) == [term |-> 0, op |-> [client |-> msg.src] @@ msg.body]

\* the entry a leader appends for a client request
\* an entry that does not say which client sent the request
kv_entry_no_client(s, msg) == [term |-> s.current_term, op |-> msg.body]

kv_entry(s, msg) == [term |-> s.current_term, op |-> [client |-> msg.src] @@ msg.body]

\* a proxy that sends the request on under its own name
kv_req_as_self(c, msg) ==
    IF c.s.state = "leader" THEN
        [c EXCEPT !.s.log = append(@, <<kv_entry(c.s, msg)>>)]
    ELSE IF c.s.leader # Nil THEN
        [c EXCEPT !.out = @ \cup {[msg EXCEPT !.dest = c.s.leader,
                                              !.src = c.s.node_id]}]
    ELSE
        reply(c, msg, [type |-> "error", code |-> 11])

\* a node that knows no leader takes the request itself
kv_req_takes_all(c, msg) ==
    IF c.s.state = "leader" \/ c.s.leader = Nil THEN
        [c EXCEPT !.s.log = append(@, <<kv_entry(c.s, msg)>>)]
    ELSE
        [c EXCEPT !.out = @ \cup {[msg EXCEPT !.dest = c.s.leader]}]

kv_req(c, msg) ==
    IF c.s.state = "leader" THEN
        [c EXCEPT !.s.log = append(@, <<kv_entry(c.s, msg)>>)]
    ELSE IF c.s.leader # Nil THEN
        \* send_msg of the message itself, with dest rewritten
        [c EXCEPT !.out = @ \cup {[msg EXCEPT !.dest = c.s.leader]}]
    ELSE
        reply(c, msg, [type |-> "error", code |-> 11])

IsReply(msg) == "in_reply_to" \in DOMAIN msg.body

\* a dispatch that falls back on the type of a message whose in_reply_to
\* names no callback
process_msg_by_type(c, msg) ==
    IF IsReply(msg) /\ msg.body.in_reply_to \in DOMAIN c.s.callbacks THEN
        LET m == msg.body.in_reply_to
            cb == c.s.callbacks[m]
            c1 == [c EXCEPT !.s.callbacks =
                        [k \in (DOMAIN c.s.callbacks) \ {m} |-> c.s.callbacks[k]]]
        IN  IF cb.kind = "handle" THEN handle(c1, cb, msg)
            ELSE handler(c1, cb, msg)
    ELSE IF msg.body.type = "init" THEN raft_init(c, msg)
    ELSE IF msg.body.type = "request_vote" THEN request_vote(c, msg)
    ELSE IF msg.body.type = "append_entries" THEN append_entries(c, msg)
    ELSE IF msg.body.type \in {"read", "write", "cas"} THEN kv_req(c, msg)
    ELSE c

\* Net.process_msg on a message read from stdin.  A reply whose callback
\* is gone raises KeyError; so does a type without handler.
process_msg(c, msg) ==
    IF IsReply(msg) THEN
        LET m == msg.body.in_reply_to IN
        IF m \notin DOMAIN c.s.callbacks THEN c
        ELSE LET cb == c.s.callbacks[m]
                 c1 == [c EXCEPT !.s.callbacks =
                            [k \in (DOMAIN c.s.callbacks) \ {m} |-> c.s.callbacks[k]]]
             IN  IF cb.kind = "handle" THEN handle(c1, cb, msg)
                 ELSE handler(c1, cb, msg)
    ELSE IF msg.body.type = "init" THEN raft_init(c, msg)
    ELSE IF msg.body.type = "request_vote" THEN request_vote(c, msg)
    ELSE IF msg.body.type = "append_entries" THEN append_entries(c, msg)
    ELSE IF msg.body.type \in {"read", "write", "cas"} THEN kv_req(c, msg)
    ELSE c

(***************************************************************************)
(* Loop actions of RaftNode.main                                           *)
(***************************************************************************)
\* self.log.get(self.last_applied) raises IndexError past the end of the
\* log, after last_applied was incremented.
\* advance_state_machine of a node that never answers the client
advance_state_machine_mute(c) ==
    IF c.s.last_applied < c.s.commit_index THEN
        LET s1 == [c.s EXCEPT !.last_applied = @ + 1] IN
        IF ~InRange(s1.log, s1.last_applied) THEN [c EXCEPT !.s = s1]
        ELSE [c EXCEPT !.s = [s1 EXCEPT !.kv = apply(s1.kv, get(s1.log, s1.last_applied).op).state]]
    ELSE c

advance_state_machine(c) ==
    IF c.s.last_applied < c.s.commit_index THEN
        LET s1 == [c.s EXCEPT !.last_applied = @ + 1] IN
        IF ~InRange(s1.log, s1.last_applied) THEN [c EXCEPT !.s = s1]
        ELSE LET res == apply(s1.kv, get(s1.log, s1.last_applied).op)
                 c1 == [c EXCEPT !.s = [s1 EXCEPT !.kv = res.state]]
             IN  IF s1.state = "leader" THEN send(c1, res.msg.dest, res.msg.body)
                 ELSE c1
    ELSE c

election(c) ==
    IF c.s.state = "follower" \/ c.s.state = "candidate" THEN become_candidate(c)
    ELSE c

\* a step down that forgets the vote of the term
step_down_forgetting(c) ==
    IF c.s.state = "leader"
    THEN [c EXCEPT !.s = become_follower([c.s EXCEPT !.voted_for = Nil])]
    ELSE c

step_down_on_timeout(c) ==
    IF c.s.state = "leader" THEN [c EXCEPT !.s = become_follower(c.s)]
    ELSE c

\* advance_commit_index counting replicas alone
advance_commit_index_any_term(s) ==
    IF s.state = "leader" THEN
        LET n == median(match_index(s)) IN
        IF s.commit_index < n THEN [s EXCEPT !.commit_index = n] ELSE s
    ELSE s

advance_commit_index(s) ==
    IF s.state = "leader" THEN
        LET n == median(match_index(s)) IN
        IF s.commit_index < n /\ get(s.log, n).term = s.current_term
        THEN [s EXCEPT !.commit_index = n]
        ELSE s
    ELSE s

\* The loop of replicate_log over other_nodes().  r.ids are the msg_ids of
\* the RPCs sent so far and r.cell the values last assigned to _node, _ni
\* and _entries; from_index raises for ni <= 0, which ends the loop.
RECURSIVE replicate_to(_, _, _)
replicate_to(r, nodes, hb) ==
    IF nodes = <<>> THEN r
    ELSE LET node == Head(nodes)
             s == r.c.s
             ni == s.next_index[node]
             entries == from_index(s.log, ni)
         IN  IF ni <= 0 THEN r
             ELSE IF 0 < Len(entries) \/ hb THEN
                 LET c1 == rpc(r.c, node,
                               [type |-> "append_entries", term |-> s.current_term,
                                leader_id |-> s.node_id, prev_log_index |-> ni - 1,
                                prev_log_term |-> get(s.log, ni - 1).term,
                                entries |-> entries, leader_commit |-> s.commit_index],
                               [kind |-> "handler"])
                 IN  replicate_to([c |-> c1, ids |-> r.ids \cup {s.next_msg_id},
                                   cell |-> [node |-> node, ni |-> ni, len |-> Len(entries)]],
                                  Tail(nodes), hb)
             ELSE replicate_to(r, Tail(nodes), hb)

\* The handlers defined in one call share the variables term, _node, _ni
\* and _entries of that call: when a reply arrives each of them reads the
\* values the last sending iteration left there.
replicate_log(c, hb) ==
    IF c.s.state = "leader" THEN
        LET r == replicate_to([c |-> c, ids |-> {}, cell |-> [node |-> Nil, ni |-> 0, len |-> 0]],
                              other_nodes(c.s), hb)
        IN  [r.c EXCEPT !.s.callbacks =
                [k \in DOMAIN @ |->
                    IF k \in r.ids
                    THEN [kind |-> "handler", term |-> c.s.current_term,
                          node |-> r.cell.node, ni |-> r.cell.ni, len |-> r.cell.len]
                    ELSE @[k]]]
    ELSE c

(***************************************************************************)
(* The cluster: each action is one iteration of one node's main loop.      *)
(***************************************************************************)
InitMsg(n, E) ==
    [src |-> "c0", dest |-> n,
     body |-> [type |-> "init", node_id |-> n, node_ids |-> E.nodes, msg_id |-> 1]]

ClientOps ==
    [type : {"write"}, key : Keys, value : Vals] \cup [type : {"read"}, key : Keys]

BagOf(S) == [m \in S |-> 1]

\* The environment of a run: the cluster; the timers that may fire
\* (timeouts: <<node, term it would start>>; stepdowns: <<node, term>>;
\* passes: <<node, next_msg_id, heartbeat due>>); what clients send
\* (requests: <<number, node, op>>); and how many messages the network
\* holds, which it delivers in any order or never.  With settled, timers
\* and clients start once every node has seen its init.  A run with a
\* schedule begins with the timer and client events of the schedule, in
\* that order, whatever the network does between, and the network loses at
\* once what such an event sends to a node outside the event's keep; the
\* events after the schedule are those the sets allow.  A schedule that has
\* deliveries gives every step of the run's beginning: the network delivers
\* what the schedule says when it says, and the nodes commit and apply
\* after the schedule's end.
Env ==
    [nodes |-> <<"n1", "n2", "n3">>,
     schedule |-> <<>>,
     timeouts |-> {"n1", "n2", "n3"} \X (1..MaxTerm),
     stepdowns |-> {"n1", "n2", "n3"} \X (1..MaxTerm),
     passes |-> {"n1", "n2", "n3"} \X (0..(MaxMsgId - 1)) \X BOOLEAN,
     requests |-> (1..MaxReqs) \X {"n1", "n2", "n3"}
                    \X {[type |-> "write", key |-> "x", value |-> 1]},
     maxNet |-> MaxNet, settled |-> FALSE]

Timeout(n, keep) == [kind |-> "timeout", node |-> n, keep |-> keep]
StepDown(n) == [kind |-> "stepdown", node |-> n]
Pass(n, hb, keep) == [kind |-> "pass", node |-> n, hb |-> hb, keep |-> keep]
Request(n, op) == [kind |-> "request", node |-> n, op |-> op]
Recv(src, dest, re, id) == [kind |-> "recv", src |-> src, dest |-> dest, re |-> re, id |-> id]

\* the delivery of message m as an event of a schedule
RecvOf(m) ==
    Recv(m.src, m.dest, "in_reply_to" \in DOMAIN m.body,
         IF "in_reply_to" \in DOMAIN m.body THEN m.body.in_reply_to ELSE m.body.msg_id)

\* the schedule of E says what the network does now
Scripted(E) ==
    /\ step < Len(E.schedule)
    /\ \E i \in DOMAIN E.schedule : E.schedule[i].kind = "recv"

\* The network or a node's loop takes step ev of itself, unless the schedule
\* says what happens now.
Unscripted(E, ev) ==
    IF Scripted(E)
    THEN E.schedule[step + 1] = ev /\ step' = step + 1
    ELSE step' = step

\* The environment lets event ev happen now; free says whether the run's
\* bounds allow it when there is no schedule.
Allowed(E, ev, free) ==
    /\ E.settled => \A n \in Nodes : raft[n].state # "nascent"
    /\ IF step < Len(E.schedule)
       THEN E.schedule[step + 1] = ev /\ step' = step + 1
       ELSE free /\ step' = step

InitIn(E) ==
    /\ raft = [n \in Range(E.nodes) |-> NewNode]
    /\ net = {}
    /\ toClient = EmptyBag
    /\ reqs = 0
    /\ elected = {}
    /\ committed = {}
    /\ acked = {}
    /\ step = 0
    /\ applied = [n \in Range(E.nodes) |-> <<>>]

\* Node n ends a loop iteration in context c, having read the messages in
\* consumed.  The network takes the messages written for the nodes in keep.
Finish(n, c, consumed, keep, E) ==
    /\ raft' = [raft EXCEPT ![n] = c.s]
    /\ LET kept == {m \in c.out : m.dest \in Nodes /\ m.dest \in keep} IN
        /\ Cardinality((net \ consumed) \cup kept) <= E.maxNet
        /\ net' = (net \ consumed) \cup kept
    /\ toClient' = toClient (+) BagOf({m \in c.out : m.dest \notin Nodes})
    /\ elected' = IF c.s.state = "leader" /\ raft[n].state # "leader"
                  THEN elected \cup {<<n, c.s.current_term>>}
                  ELSE elected

\* the successful acknowledgements among the messages written
Acks(m, out) ==
    {<<m.body.leader_id, m.body.term, m.dest,
       m.body.prev_log_index + Len(m.body.entries)>> :
        r \in {x \in out : /\ IsReply(x)
                           /\ x.body.type = "append_entries_res"
                           /\ x.body.success}}

RaftInit(n, E) ==
    /\ Finish(n, process_msg(Ctx(raft[n]), InitMsg(n, E)), {}, Nodes, E)
    /\ UNCHANGED <<reqs, committed, acked, step, applied>>

Deliver(m, E) ==
    /\ LET c == process_msg(Ctx(raft[m.dest]), m) IN
        /\ Finish(m.dest, c, {m}, Nodes, E)
        /\ acked' = acked \cup Acks(m, c.out)
    /\ Unscripted(E, RecvOf(m))
    /\ UNCHANGED <<reqs, committed, applied>>

ClientRequest(n, op, E) ==
    /\ Allowed(E, Request(n, op), <<reqs + 1, n, op>> \in E.requests)
    /\ Finish(n, process_msg(Ctx(raft[n]),
                    [src |-> "c1", dest |-> n, body |-> op @@ [msg_id |-> reqs + 1]]), {}, Nodes, E)
    /\ reqs' = reqs + 1
    /\ UNCHANGED <<committed, acked, applied>>

StepDownOnTimeout(n, E) ==
    /\ raft[n].state = "leader"
    /\ Allowed(E, StepDown(n), <<n, raft[n].current_term>> \in E.stepdowns)
    /\ Finish(n, step_down_on_timeout(Ctx(raft[n])), {}, Nodes, E)
    /\ UNCHANGED <<reqs, committed, acked, applied>>

ReplicateLog(n, hb, keep, E) ==
    /\ raft[n].state = "leader"
    /\ Allowed(E, Pass(n, hb, keep),
               keep = Nodes /\ <<n, raft[n].next_msg_id, hb>> \in E.passes)
    /\ Finish(n, replicate_log(Ctx(raft[n]), hb), {}, keep, E)
    /\ UNCHANGED <<reqs, committed, acked, applied>>

Election(n, keep, E) ==
    /\ Allowed(E, Timeout(n, keep),
               /\ keep = Nodes
               /\ raft[n].state \in {"follower", "candidate"}
                    => <<n, raft[n].current_term + 1>> \in E.timeouts)
    /\ Finish(n, election(Ctx(raft[n])), {}, keep, E)
    /\ UNCHANGED <<reqs, committed, acked, applied>>

AdvanceCommitIndex(n, E) ==
    /\ raft[n].state = "leader"
    /\ LET s == advance_commit_index(raft[n]) IN
        /\ Finish(n, Ctx(s), {}, Nodes, E)
        /\ committed' = committed \cup
                {[index |-> i, entry |-> s.log[i], term |-> s.current_term] :
                    i \in (raft[n].commit_index + 1)..s.commit_index}
    /\ Unscripted(E, [kind |-> "commit", node |-> n])
    /\ UNCHANGED <<reqs, acked, applied>>

AdvanceStateMachine(n, E) ==
    /\ raft[n].last_applied < raft[n].commit_index
    /\ LET c == advance_state_machine(Ctx(raft[n])) IN
        /\ Finish(n, c, {}, Nodes, E)
        /\ applied' = IF InRange(c.s.log, c.s.last_applied)
                      THEN [applied EXCEPT ![n] = Append(@,
                                [index |-> c.s.last_applied,
                                 op |-> get(c.s.log, c.s.last_applied).op])]
                      ELSE applied
    /\ Unscripted(E, [kind |-> "apply", node |-> n])
    /\ UNCHANGED <<reqs, committed, acked>>

NextIn(E) ==
    \/ \E n \in Nodes : RaftInit(n, E)
    \/ \E m \in net : Deliver(m, E)
    \/ \E n \in Nodes : \E op \in ClientOps : ClientRequest(n, op, E)
    \/ \E n \in Nodes : StepDownOnTimeout(n, E)
    \/ \E n \in Nodes : \E hb \in BOOLEAN : \E keep \in SUBSET Nodes :
            ReplicateLog(n, hb, keep, E)
    \/ \E n \in Nodes : \E keep \in SUBSET Nodes : Election(n, keep, E)
    \/ \E n \in Nodes : AdvanceCommitIndex(n, E)
    \/ \E n \in Nodes : AdvanceStateMachine(n, E)

Init == InitIn(Env)

Next == NextIn(Env)

Spec == Init /\ [][Next]_vars

\* Maelstrom sends every node its init, and a node reads what it is sent:
\* an init that stays unread is read in the end.
SpecInit == Init /\ [][Next]_vars /\ WF_vars(\E n \in Nodes : RaftInit(n, Env))

(***************************************************************************)
(* A run with a delayed heartbeat: n1 leads term 1 and replicates a write, *)
(* n2 may start term 2, and the network holds up to three messages, which  *)
(* it delivers in any order.                                               *)
(***************************************************************************)
W1 == [type |-> "write", key |-> "x", value |-> 1]
W2 == [type |-> "write", key |-> "x", value |-> 2]

EnvStale ==
    [nodes |-> <<"n1", "n2", "n3">>,
     schedule |-> <<Timeout("n1", {"n2"}), Pass("n1", TRUE, {"n2"}),
                    Request("n1", W1), Pass("n1", FALSE, {"n2"}),
                    Pass("n1", FALSE, {"n2"}), Timeout("n2", {"n3"}),
                    Request("n2", W2), Pass("n2", FALSE, {"n3"}), StepDown("n2")>>,
     timeouts |-> {}, stepdowns |-> {}, passes |-> {}, requests |-> {},
     maxNet |-> MaxNet + 1, settled |-> TRUE]

SpecStale == InitIn(EnvStale) /\ [][NextIn(EnvStale)]_vars

(***************************************************************************)
(* Contested elections: any node may time out in any term up to MaxTerm    *)
(* while the requests for votes of another candidate are still in flight;  *)
(* a leader replicates once, and n1 may be sent one write.                 *)
(***************************************************************************)
EnvElect ==
    [nodes |-> <<"n1", "n2", "n3">>,
     schedule |-> <<>>,
     timeouts |-> {"n1", "n2", "n3"} \X (1..MaxTerm),
     stepdowns |-> {<<"n1", 1>>},
     passes |-> {"n1", "n2", "n3"} \X {2} \X {FALSE},
     requests |-> {<<1, "n1", W1>>},
     maxNet |-> MaxNet + 1, settled |-> TRUE]

SpecElect == InitIn(EnvElect) /\ [][NextIn(EnvElect)]_vars

(***************************************************************************)
(* A run with two delayed heartbeats: n1 leads term 1, commits two writes  *)
(* with n3 and then sends them to n2; the heartbeats of n1's first pass    *)
(* may arrive after that, and n2 may start term 2.                         *)
(***************************************************************************)
EnvRegress ==
    [nodes |-> <<"n1", "n2", "n3">>,
     schedule |-> <<Timeout("n1", {"n2"}), Pass("n1", TRUE, {"n2", "n3"}),
                    Request("n1", W1), Pass("n1", FALSE, {"n3"}),
                    Request("n1", W2), Pass("n1", FALSE, {"n3"}),
                    Pass("n1", FALSE, {"n2"}), Timeout("n2", {"n3"}),
                    Pass("n2", TRUE, {"n3"}), StepDown("n2")>>,
     timeouts |-> {}, stepdowns |-> {}, passes |-> {}, requests |-> {},
     maxNet |-> MaxNet + 1, settled |-> TRUE]

SpecRegress == InitIn(EnvRegress) /\ [][NextIn(EnvRegress)]_vars

(***************************************************************************)
(* A cluster of four in which only n2 receives what the leader n1          *)
(* replicates.                                                             *)
(***************************************************************************)
EnvFour ==
    [nodes |-> <<"n1", "n2", "n3", "n4">>,
     schedule |-> <<Timeout("n1", {"n2", "n3"}), Request("n1", W1),
                    Pass("n1", FALSE, {"n2"}), Pass("n1", FALSE, {"n2"}),
                    StepDown("n1")>>,
     timeouts |-> {}, stepdowns |-> {}, passes |-> {}, requests |-> {},
     maxNet |-> MaxNet, settled |-> FALSE]

SpecFour == InitIn(EnvFour) /\ [][NextIn(EnvFour)]_vars

(***************************************************************************)
(* Clusters of one node and of three: a run starts as a cluster of either  *)
(* size.  The main loop never ends and every deadline passes in the end,   *)
(* so each loop action that stays possible is taken.                       *)
(***************************************************************************)
EnvSolo ==
    [nodes |-> <<"n1">>,
     schedule |-> <<>>,
     timeouts |-> {"n1"} \X (1..MaxTerm),
     stepdowns |-> {<<"n1", 1>>},
     passes |-> {"n1"} \X (0..MaxMsgId) \X BOOLEAN,
     requests |-> {<<1, "n1", W1>>},
     maxNet |-> MaxNet, settled |-> TRUE]

EnvOfSize == IF Cardinality(Nodes) = 1 THEN EnvSolo ELSE EnvElect

InitSizes == InitIn(EnvSolo) \/ InitIn(EnvElect)

NextSizes == NextIn(EnvOfSize)

SpecSizes == InitSizes /\ [][NextSizes]_vars /\ WF_vars(NextSizes)

(***************************************************************************)
(* A lasting leader in a cluster of three or of five.  In the cluster of   *)
(* three n1 wins term 1 and is sent one write; then it replicates whenever *)
(* it has something to send, may send one heartbeat right after its        *)
(* election, and may step down.  In the cluster of five no message is      *)
(* lost: n1 wins term 1 and replicates two writes, the network delaying    *)
(* what n1 sends n3 and what n3 answers; then a third write arrives and n1 *)
(* replicates and sends heartbeats as it will.  Every message is delivered *)
(* in the end, and every loop action that stays possible is taken.         *)
(***************************************************************************)
EnvLive ==
    [nodes |-> <<"n1", "n2", "n3">>,
     schedule |-> <<Timeout("n1", {"n2", "n3"}), Request("n1", W1)>>,
     timeouts |-> {},
     stepdowns |-> {<<"n1", 1>>},
     passes |-> ({"n1"} \X (0..MaxLiveMsgId) \X {FALSE}) \cup {<<"n1", 2, TRUE>>},
     requests |-> {},
     maxNet |-> MaxNet + 1, settled |-> TRUE]

Five == {"n1", "n2", "n3", "n4", "n5"}

EnvLiveFive ==
    [nodes |-> <<"n1", "n2", "n3", "n4", "n5">>,
     schedule |-> <<
                  Timeout("n1", Five), Recv("n1", "n2", FALSE, 0),
                  Recv("n1", "n3", FALSE, 1), Recv("n1", "n4", FALSE, 2),
                  Recv("n1", "n5", FALSE, 3), Recv("n2", "n1", TRUE, 0),
                  Recv("n3", "n1", TRUE, 1), Recv("n4", "n1", TRUE, 2),
                  Recv("n5", "n1", TRUE, 3), Request("n1", W1),
                  Pass("n1", FALSE, Five), Recv("n1", "n2", FALSE, 4),
                  Recv("n1", "n4", FALSE, 6), Recv("n1", "n5", FALSE, 7),
                  Recv("n2", "n1", TRUE, 4), Recv("n4", "n1", TRUE, 6),
                  Recv("n5", "n1", TRUE, 7), Pass("n1", FALSE, Five),
                  Recv("n1", "n2", FALSE, 8), Recv("n1", "n4", FALSE, 10),
                  Recv("n2", "n1", TRUE, 8), Recv("n4", "n1", TRUE, 10),
                  Pass("n1", FALSE, Five), Recv("n1", "n2", FALSE, 11),
                  Recv("n2", "n1", TRUE, 11), Pass("n1", FALSE, Five),
                  Recv("n1", "n2", FALSE, 13), Recv("n2", "n1", TRUE, 13),
                  Request("n1", W2), Pass("n1", FALSE, Five),
                  Recv("n1", "n2", FALSE, 14), Recv("n1", "n3", FALSE, 15),
                  Recv("n1", "n4", FALSE, 16), Recv("n1", "n5", FALSE, 17),
                  Recv("n3", "n1", TRUE, 15), Recv("n2", "n1", TRUE, 14),
                  Recv("n4", "n1", TRUE, 16), Recv("n5", "n1", TRUE, 17),
                  Pass("n1", FALSE, Five), Recv("n1", "n2", FALSE, 18),
                  Recv("n1", "n3", FALSE, 19), Recv("n1", "n4", FALSE, 20),
                  Recv("n3", "n1", TRUE, 19), Recv("n2", "n1", TRUE, 18),
                  Recv("n4", "n1", TRUE, 20), Pass("n1", FALSE, Five),
                  Pass("n1", FALSE, Five), Pass("n1", FALSE, Five),
                  Pass("n1", FALSE, Five), Recv("n1", "n2", FALSE, 21),
                  Recv("n1", "n3", FALSE, 22), Recv("n1", "n2", FALSE, 23),
                  Recv("n1", "n3", FALSE, 24), Recv("n1", "n2", FALSE, 25),
                  Recv("n1", "n3", FALSE, 26), Recv("n1", "n2", FALSE, 27),
                  Recv("n1", "n3", FALSE, 28), Recv("n2", "n1", TRUE, 21),
                  Recv("n2", "n1", TRUE, 23), Recv("n2", "n1", TRUE, 25),
                  Recv("n2", "n1", TRUE, 27), Pass("n1", FALSE, Five),
                  Recv("n1", "n2", FALSE, 29), Recv("n2", "n1", TRUE, 29),
                  Recv("n1", "n3", FALSE, 5), Recv("n1", "n3", FALSE, 9),
                  Recv("n1", "n3", FALSE, 12), Recv("n3", "n1", TRUE, 5),
                  Recv("n3", "n1", TRUE, 9), Recv("n3", "n1", TRUE, 12),
                  Recv("n3", "n1", TRUE, 22), Recv("n3", "n1", TRUE, 24),
                  Recv("n3", "n1", TRUE, 26), Recv("n3", "n1", TRUE, 28),
                  Request("n1", W1)>>,
     timeouts |-> {},
     stepdowns |-> {<<"n1", 1>>},
     passes |-> {"n1"} \X (0..MaxLiveMsgId) \X BOOLEAN,
     requests |-> {},
     maxNet |-> MaxLiveNet, settled |-> TRUE]

EnvLiveOfSize == IF Cardinality(Nodes) = 3 THEN EnvLive ELSE EnvLiveFive

\* the steps that the network and a node's loop take of themselves
LoopStep(E) ==
    \/ \E m \in net : Deliver(m, E)
    \/ \E n \in Nodes : \E hb \in BOOLEAN : ReplicateLog(n, hb, Nodes, E)
    \/ \E n \in Nodes : AdvanceCommitIndex(n, E)
    \/ \E n \in Nodes : AdvanceStateMachine(n, E)

InitLive == InitIn(EnvLive) \/ InitIn(EnvLiveFive)

NextLive == NextIn(EnvLiveOfSize)

SpecLive == InitLive /\ [][NextLive]_vars /\ WF_vars(LoopStep(EnvLiveOfSize))

(***************************************************************************)
(* Two leaders with different logs: n2 leads term 1 and appends a write    *)
(* that it never replicates; n3 wins term 2 with the vote of n1, appends   *)
(* two writes, and replicates to n1 and then to n2.                        *)
(***************************************************************************)
EnvDiverge ==
    [nodes |-> <<"n1", "n2", "n3">>,
     schedule |-> <<Timeout("n2", {"n1"}), Request("n2", W1),
                    Timeout("n3", {}), Timeout("n3", {"n1"}),
                    Request("n3", W2), Pass("n3", FALSE, {"n1"}),
                    Request("n3", W1), Pass("n3", FALSE, {"n2"}),
                    StepDown("n3")>>,
     timeouts |-> {}, stepdowns |-> {}, passes |-> {}, requests |-> {},
     maxNet |-> MaxNet + 1, settled |-> TRUE]

SpecDiverge == InitIn(EnvDiverge) /\ [][NextIn(EnvDiverge)]_vars

(***************************************************************************)
(* A leader that counts a follower's next index down: n3 is a candidate of *)
(* term 1 whose requests nobody hears; n1 leads term 1 and replicates a    *)
(* write to n3 only, steps down and wins term 2; its first two heartbeats  *)
(* of term 2 reach only n2, which lacks the write, and its third only n3.  *)
(***************************************************************************)
EnvUnderflow ==
    [nodes |-> <<"n1", "n2", "n3">>,
     schedule |-> <<Timeout("n3", {}), Timeout("n1", {"n2"}),
                    Request("n1", W1), Pass("n1", FALSE, {"n3"}),
                    StepDown("n1"), Timeout("n1", {"n2"}),
                    Pass("n1", TRUE, {"n2"}), Pass("n1", TRUE, {"n2"}),
                    Pass("n1", TRUE, {"n3"})>>,
     timeouts |-> {}, stepdowns |-> {}, passes |-> {}, requests |-> {},
     maxNet |-> MaxNet + 1, settled |-> TRUE]

SpecUnderflow == InitIn(EnvUnderflow) /\ [][NextIn(EnvUnderflow)]_vars

(***************************************************************************)
(* The state machine alone: node n1 starts with any KV state over KVKeys   *)
(* and KVVals and applies any read, write or cas to it, one after another; *)
(* applied holds the op applied last and toClient the response to it.      *)
(***************************************************************************)
KVKeys == {"x", "y"}
KVVals == {1, 2, 3}

KVStates == UNION {[S -> KVVals] : S \in SUBSET KVKeys}

KVOps ==
    [type : {"read"}, key : KVKeys, client : {"c1"}, msg_id : {1}]
        \cup [type : {"write"}, key : KVKeys, value : KVVals, client : {"c1"}, msg_id : {1}]
        \cup [type : {"cas"}, key : KVKeys, from : KVVals, to : KVVals,
              client : {"c1"}, msg_id : {1}]

InitKV ==
    /\ raft \in {[n \in {"n1"} |-> [NewNode EXCEPT !.kv = kv]] : kv \in KVStates}
    /\ net = {}
    /\ toClient = EmptyBag
    /\ reqs = 0
    /\ elected = {}
    /\ committed = {}
    /\ acked = {}
    /\ step = 0
    /\ applied = [n \in {"n1"} |-> <<>>]

Apply(op) ==
    LET res == apply(raft["n1"].kv, op) IN
        /\ raft' = [raft EXCEPT !["n1"].kv = res.state]
        /\ toClient' = BagOf({[src |-> "n1", dest |-> res.msg.dest, body |-> res.msg.body]})
        /\ applied' = [applied EXCEPT !["n1"] = <<[index |-> 0, op |-> op]>>]
        /\ UNCHANGED <<net, reqs, elected, committed, acked, step>>

NextKV == \E op \in KVOps : Apply(op)

SpecKV == InitKV /\ [][NextKV]_vars

(***************************************************************************)
(* The median of the match indices alone: a leader n1 of term 1 in a       *)
(* cluster of one to MaxNodes nodes, with a log of one to MaxMatch entries *)
(* and any match index up to MaxMatch for every other node, takes the      *)
(* median of match_index() as advance_commit_index does; committed holds   *)
(* the value it got.                                                       *)
(***************************************************************************)
MaxNodes == 5
MaxMatch == 5

Ids == <<"n1", "n2", "n3", "n4", "n5">>

MedianLeaders ==
    {[NewNode EXCEPT !.state = "leader", !.current_term = 1, !.voted_for = "n1",
                     !.node_id = "n1", !.node_ids = SubSeq(Ids, 1, k),
                     !.log = NewLog \o [i \in 1..(sz - 1) |-> [term |-> 1, op |-> W1]],
                     !.next_index = [o \in DOMAIN mi |-> sz + 1],
                     !.match_index = mi] :
        <<k, sz, mi>> \in UNION {{<<k, sz, mi>> :
                                     sz \in 1..MaxMatch,
                                     mi \in [{Ids[i] : i \in 2..k} -> 0..MaxMatch]} :
                                 k \in 1..MaxNodes}}

InitMedian ==
    /\ raft \in {[n \in {"n1"} |-> s] : s \in MedianLeaders}
    /\ net = {}
    /\ toClient = EmptyBag
    /\ reqs = 0
    /\ elected = {}
    /\ committed = {}
    /\ acked = {}
    /\ step = 0
    /\ applied = [n \in {"n1"} |-> <<>>]

Median ==
    /\ committed = {}
    /\ committed' = {median(match_index(raft["n1"]))}
    /\ UNCHANGED <<raft, net, toClient, reqs, elected, acked, step, applied>>

NextMedian == Median

SpecMedian == InitMedian /\ [][NextMedian]_vars

(***************************************************************************)
(* lock-single-server.py: one node n1 that serves lock and unlock.  Its     *)
(* state is the module state of node.py (node_id, node_ids, msg_id) and of  *)
(* the server (acquired, requests); n1 reads init, lock and unlock          *)
(* messages from LockClients one at a time.  applied holds the message read *)
(* last and toClient every message sent.                                    *)
(***************************************************************************)
MaxLockSteps == 5

LockClients == {"c1", "c2", "c3"}
LockMsgIds == {1, 2}

\* acquired = None
NoHolder == [none |-> TRUE]

NewLockServer ==
    [node_id |-> Nil, node_ids |-> <<>>, msg_id |-> 0, acquired |-> NoHolder, requests |-> <<>>]

\* node.py send: counts msg_id up and stamps the message with it
lock_send(c, dest, body) ==
    LET id == c.s.msg_id + 1 IN
    [s |-> [c.s EXCEPT !.msg_id = id],
     out |-> c.out \cup {[src |-> c.s.node_id, dest |-> dest,
                          body |-> body @@ [msg_id |-> id]]}]

lock_reply(c, req, body) ==
    lock_send(c, req.src, [in_reply_to |-> req.body.msg_id] @@ body)

\* node.py init: the default handler
lock_init(c, msg) ==
    lock_reply([c EXCEPT !.s.node_id = msg.body.node_id, !.s.node_ids = msg.body.node_ids],
               msg, [type |-> "init_ok"])

\* a lock that is granted whoever holds it
lock_always(c, msg) ==
    [lock_reply(c, msg, [type |-> "lock_ok"]) EXCEPT !.s.acquired = msg]

\* case 'lock'
lock(c, msg) ==
    IF c.s.acquired = NoHolder THEN
        [lock_reply(c, msg, [type |-> "lock_ok"]) EXCEPT !.s.acquired = msg]
    ELSE [c EXCEPT !.s.requests = Append(@, msg)]

\* case 'unlock'
unlock(c, msg) ==
    IF c.s.acquired # NoHolder /\ c.s.acquired.src = msg.src THEN
        LET c1 == lock_reply(c, msg, [type |-> "unlock_ok"]) IN
        IF c1.s.requests # <<>> THEN
            LET c2 == [c1 EXCEPT !.s.acquired = Head(c1.s.requests),
                                 !.s.requests = Tail(c1.s.requests)]
            IN  lock_reply(c2, c2.s.acquired, [type |-> "lock_ok"])
        ELSE [c1 EXCEPT !.s.acquired = NoHolder]
    ELSE lock_reply(c, msg, [type |-> "error", code |-> 22])

\* receive() and the match of the main loop
lock_receive(c, msg) ==
    CASE msg.body.type = "init" -> lock_init(c, msg)
      [] msg.body.type = "lock" -> lock(c, msg)
      [] msg.body.type = "unlock" -> unlock(c, msg)

LockMsgs ==
    {[src |-> "c0", dest |-> "n1",
      body |-> [type |-> "init", msg_id |-> 1, node_id |-> "n1", node_ids |-> <<"n1">>]]}
        \cup [src : LockClients, dest : {"n1"},
              body : [type : {"lock", "unlock"}, msg_id : LockMsgIds]]

InitLock ==
    /\ raft = [n \in {"n1"} |-> NewLockServer]
    /\ net = {}
    /\ toClient = EmptyBag
    /\ reqs = 0
    /\ elected = {}
    /\ committed = {}
    /\ acked = {}
    /\ step = 0
    /\ applied = [n \in {"n1"} |-> <<>>]

Receive(msg) ==
    LET c == lock_receive(Ctx(raft["n1"]), msg) IN
        /\ step < MaxLockSteps
        /\ msg.body.type = "init" <=> raft["n1"].node_id = Nil
        /\ raft' = [raft EXCEPT !["n1"] = c.s]
        /\ toClient' = toClient (+) BagOf(c.out)
        /\ applied' = [applied EXCEPT !["n1"] = <<msg>>]
        /\ step' = step + 1
        /\ UNCHANGED <<net, reqs, elected, committed, acked>>

NextLock == \E msg \in LockMsgs : Receive(msg)

SpecLock == InitLock /\ [][NextLock]_vars

(***************************************************************************)
(* A network that repeats itself: besides what it does in the contested    *)
(* elections, the network may hand a node a reply and keep it in flight,   *)
(* so that the node reads the reply again later, and may hand a node a     *)
(* request that carries an in_reply_to for which the node holds no         *)
(* callback.                                                               *)
(***************************************************************************)
EnvDup ==
    [nodes |-> <<"n1", "n2", "n3">>,
     schedule |-> <<>>,
     timeouts |-> {"n1", "n2"} \X (1..MaxTerm),
     stepdowns |-> {<<"n1", 1>>},
     passes |-> {"n1", "n2"} \X {2} \X {FALSE},
     requests |-> {<<1, "n1", W1>>},
     maxNet |-> MaxNet, settled |-> TRUE]

\* node m.dest reads reply m, which stays in flight
Again(m, E) ==
    /\ IsReply(m)
    /\ Finish(m.dest, process_msg(Ctx(raft[m.dest]), m), {}, Nodes, E)
    /\ UNCHANGED <<reqs, committed, acked, step, applied>>

\* request m with in_reply_to k added
Echoed(m, k) == [m EXCEPT !.body = @ @@ [in_reply_to |-> k]]

\* node m.dest reads request m as a message in reply to k, for which it
\* holds no callback
Echo(m, k, E) ==
    /\ ~IsReply(m)
    /\ k \notin DOMAIN raft[m.dest].callbacks
    /\ LET c == process_msg(Ctx(raft[m.dest]), Echoed(m, k)) IN
        /\ Finish(m.dest, c, {m}, Nodes, E)
        /\ acked' = acked \cup Acks(m, c.out)
    /\ UNCHANGED <<reqs, committed, step, applied>>

NextDup ==
    \/ NextIn(EnvDup)
    \/ \E m \in net : Again(m, EnvDup)
    \/ \E m \in net : \E k \in 0..MaxMsgId : Echo(m, k, EnvDup)

SpecDup == InitIn(EnvDup) /\ [][NextDup]_vars

(***************************************************************************)
(* Properties                                                              *)
(***************************************************************************)
\* C1 (Election Safety): for every term at most one node has ever been
\* leader in it, and every current leader was recorded when it was elected.
ElectionSafety ==
    /\ \A p \in elected : \A q \in elected : p[2] = q[2] => p[1] = q[1]
    /\ \A n \in Nodes :
        raft[n].state = "leader" => <<n, raft[n].current_term>> \in elected

\* C2 (State-Machine Safety): two nodes that applied index i applied the
\* same op there, and two nodes that applied equally many entries hold the
\* same KV state.
StateMachineSafety ==
    \A n \in Nodes : \A m \in Nodes :
        /\ \A a \in Range(applied[n]) : \A b \in Range(applied[m]) :
                a.index = b.index => a.op = b.op
        /\ Len(applied[n]) = Len(applied[m]) => raft[n].kv = raft[m].kv

\* C3 (Leader Completeness): an entry committed while its leader was in
\* term T is at the same index in the log of every leader of a later term.
LeaderCompleteness ==
    \A e \in committed : \A n \in Nodes :
        (raft[n].state = "leader" /\ raft[n].current_term > e.term)
            => /\ e.index <= Len(raft[n].log)
               /\ raft[n].log[e.index] = e.entry

\* C4 (committed entries are immutable): no step replaces or removes an
\* entry at an index that some node's commit_index covers.
CommittedImmutable ==
    [][\A n \in Nodes : \A i \in 1..Len(raft[n].log) :
            (\E m \in Nodes : i <= raft[m].commit_index)
                => /\ i <= Len(raft'[n].log)
                   /\ raft'[n].log[i] = raft[n].log[i]]_vars

\* C5 (Log Matching): if two nodes hold entries of the same term at index
\* i, their logs are identical from 1 to i.
LogMatching ==
    \A n \in Nodes : \A m \in Nodes :
        \A i \in 1..Min(Len(raft[n].log), Len(raft[m].log)) :
            raft[n].log[i].term = raft[m].log[i].term
                => SubSeq(raft[n].log, 1, i) = SubSeq(raft[m].log, 1, i)

\* C5 case: two nodes agree at index 2 on an entry of one term while a
\* third node holds an entry of another term there.
LogMatchingCase ==
    \E n \in Nodes : \E m \in Nodes \ {n} : \E k \in Nodes :
        /\ Len(raft[n].log) >= 2 /\ Len(raft[m].log) >= 2 /\ Len(raft[k].log) >= 2
        /\ raft[n].log[2].term = raft[m].log[2].term
        /\ raft[k].log[2].term # raft[n].log[2].term

\* the followers that acknowledged, to leader n in term t, entries up to
\* index i or beyond
Ackers(n, t, i) ==
    {f \in Nodes \ {n} : \E a \in acked : a[1] = n /\ a[2] = t /\ a[3] = f /\ a[4] >= i}

\* C6: at a step where a leader's advance_commit_index raises commit_index
\* to i, a majority of the cluster, the leader included, has stored and
\* acknowledged the leader's entries up to i in the leader's term.
MajorityAcked ==
    [][\A n \in Nodes :
        (/\ raft[n].state = "leader" /\ raft'[n].state = "leader"
         /\ raft'[n].current_term = raft[n].current_term
         /\ raft'[n].commit_index # raft[n].commit_index)
            => majority(Cardinality(Nodes))
                    <= Cardinality(Ackers(n, raft[n].current_term,
                                          raft'[n].commit_index)) + 1]_vars

\* C7: a step of advance_commit_index that changes a leader's commit_index
\* sets it to a larger index whose entry has the leader's current term.
CommitsCurrentTerm ==
    [][\A n \in Nodes :
        /\ (/\ raft[n].state = "leader" /\ raft'[n].state = "leader"
            /\ raft'[n].commit_index # raft[n].commit_index)
                => /\ raft'[n] = advance_commit_index(raft[n])
                   /\ raft'[n].commit_index > raft[n].commit_index
                   /\ get(raft'[n].log, raft'[n].commit_index).term
                        = raft'[n].current_term
        /\ LET s == advance_commit_index(raft[n]) IN
            s.commit_index # raft[n].commit_index
                => /\ s.commit_index > raft[n].commit_index
                   /\ get(s.log, s.commit_index).term = s.current_term]_vars

\* C7 case: a leader has committed a client's entry, and a leader whose
\* followers all hold the entry of term 0 at index 1 has left it alone.
CommitsCurrentTermCase ==
    /\ \E n \in Nodes : raft[n].state = "leader" /\ raft[n].commit_index >= 2
    /\ \E e \in committed : e.entry.term >= 1

\* C8: on every node 1 <= last_applied <= commit_index <= log.size(); here
\* for the nodes whose commit_index has left its initial 0, where
\* last_applied starts at 1.
AppliedCommitSize ==
    \A n \in Nodes :
        raft[n].commit_index >= 1
            => /\ 1 <= raft[n].last_applied
               /\ raft[n].last_applied <= raft[n].commit_index
               /\ raft[n].commit_index <= size(raft[n].log)

\* C9: no step lowers a node's commit_index, and an accepted append_entries
\* leaves max(old commit_index, min(leader_commit, log.size())).
CommitMonotone ==
    [][\A n \in Nodes :
        /\ raft[n].commit_index <= raft'[n].commit_index
        /\ \A m \in net :
            (/\ m.dest = n /\ ~IsReply(m) /\ m.body.type = "append_entries"
             /\ m \notin net'
             /\ raft'[n] = append_entries(Ctx(raft[n]), m).s
             /\ \E r \in net' \ net :
                    /\ r.src = n /\ r.body.type = "append_entries_res"
                    /\ r.body.in_reply_to = m.body.msg_id /\ r.body.success)
                => raft'[n].commit_index
                    = Max(raft[n].commit_index,
                          Min(m.body.leader_commit, size(raft'[n].log)))]_vars

\* C10: no step lowers a node's current_term, and advance_term to a term
\* that is not greater leaves the term and the vote as they are.
TermMonotone ==
    [][\A n \in Nodes :
        /\ raft[n].current_term <= raft'[n].current_term
        /\ \A term \in 0..raft[n].current_term :
            LET s == advance_term(raft[n], term) IN
                /\ s.current_term = raft[n].current_term
                /\ s.voted_for = raft[n].voted_for]_vars

\* C10 case: a node that voted in term 1 has moved on to a later term, and a
\* message of term 1 is still on its way to it.
TermMonotoneCase ==
    \E n \in Nodes :
        /\ raft[n].current_term >= 2
        /\ \E m \in net : /\ m.dest = n /\ "term" \in DOMAIN m.body
                          /\ m.body.term < raft[n].current_term

\* C1 case: a node won a term in which another node is a candidate.
ElectionSafetyCase ==
    \E p \in elected : \E m \in Nodes \ {p[1]} :
        raft[m].state = "candidate" /\ raft[m].current_term = p[2]

\* C11: within one value of current_term, voted_for, once set, keeps its
\* value; it returns to None only in a step that raises current_term.
VotesOncePerTerm ==
    [][\A n \in Nodes :
        /\ (raft'[n].current_term = raft[n].current_term /\ raft[n].voted_for # Nil)
                => raft'[n].voted_for = raft[n].voted_for
        /\ (raft[n].voted_for # Nil /\ raft'[n].voted_for = Nil)
                => raft'[n].current_term > raft[n].current_term]_vars

\* C11 case: a node that has voted in its term is about to receive the
\* request for a vote of another candidate of that term.
VotesOncePerTermCase ==
    \E n \in Nodes : \E m \in net :
        /\ m.dest = n /\ ~IsReply(m) /\ m.body.type = "request_vote"
        /\ m.body.term = raft[n].current_term
        /\ raft[n].voted_for \notin {Nil, m.body.candidate_id}

\* C12: in a cluster of one node, the node becomes leader in the end.
SoloElectsItself ==
    (Cardinality(Nodes) = 1) => <>(\E n \in Nodes : raft[n].state = "leader")

\* in a cluster of one node no state has a leader
SoloNeverLeads ==
    (Cardinality(Nodes) = 1) => \A n \in Nodes : raft[n].state # "leader"

\* the leader n has answered client request id with the result of its op
Answered(n, id) ==
    \E m \in DOMAIN toClient :
        /\ m.src = n /\ m.dest = "c1"
        /\ m.body.type \in {"read_ok", "write_ok", "cas_ok", "error"}
        /\ "in_reply_to" \in DOMAIN m.body /\ m.body.in_reply_to = id
        /\ m.body.type = "error" => m.body.code # 11

\* Nothing is left for the network and the loops to do: no message is in
\* flight; no replicate_log has an entry it would send; a heartbeat would
\* reach only nodes that already have the sender's log and commit_index;
\* and no advance_commit_index or advance_state_machine would change
\* anything.
AtRest ==
    /\ net = {}
    /\ \A n \in Nodes :
        /\ replicate_log(Ctx(raft[n]), FALSE) = Ctx(raft[n])
        /\ \A m \in replicate_log(Ctx(raft[n]), TRUE).out :
                /\ raft[m.dest].log = raft[n].log
                /\ raft[m.dest].commit_index = raft[n].commit_index
                /\ raft[m.dest].current_term = raft[n].current_term
        /\ advance_commit_index(raft[n]) = raft[n]
        /\ ~(raft[n].last_applied < raft[n].commit_index)

\* C13: a node that is still leader when the network has delivered every
\* message and no loop action has anything left to do has covered every
\* entry it appended for a client by its commit_index, applied it and
\* answered the client with the msg_id of the request.  (A run in which the
\* network and the loops take every step that stays possible either comes
\* to rest or sends heartbeats for ever to nodes they do not change.)
LeaderAnswers ==
    \A n \in Nodes :
        (AtRest /\ raft[n].state = "leader")
            => \A i \in 2..size(raft[n].log) :
                /\ raft[n].commit_index >= i
                /\ raft[n].last_applied >= i
                /\ Answered(n, raft[n].log[i].op.msg_id)

\* message m is an append_entries that its receiver accepts: the term is not
\* stale and the receiver has an entry of term prev_log_term at
\* prev_log_index
Accepts(m) ==
    /\ m.body.type = "append_entries"
    /\ m.body.term >= raft[m.dest].current_term
    /\ m.body.prev_log_index >= 1
    /\ InRange(raft[m.dest].log, m.body.prev_log_index)
    /\ get(raft[m.dest].log, m.body.prev_log_index).term = m.body.prev_log_term

\* C14: a step that delivers an accepted append_entries with no entries
\* leaves the receiver's log as it was, also when the log extends beyond
\* prev_log_index.
HeartbeatKeepsLog ==
    [][\A m \in net :
        (m \notin net' /\ Accepts(m) /\ m.body.entries = <<>>)
            => raft'[m.dest].log = raft[m.dest].log]_vars

\* C15: a step that delivers a request_vote to node n replies to the sender
\* with n's current term and with vote_granted true exactly when, with the
\* term and vote that maybe_step_down(body.term) leaves, body.term is not
\* below the term, no vote is cast, and the candidate's log is not behind
\* (a later last term, or the same last term and at least n's size);
\* voted_for becomes the candidate when the vote is granted and otherwise
\* is what maybe_step_down left.
VoteGrantRule ==
    [][\A m \in net :
        (m \notin net' /\ ~IsReply(m) /\ m.body.type = "request_vote")
            => LET n == m.dest
                   b == m.body
                   term == Max(raft[n].current_term, b.term)
                   vote == IF b.term > raft[n].current_term THEN Nil
                           ELSE raft[n].voted_for
                   ok == /\ b.term >= term
                         /\ vote = Nil
                         /\ \/ b.last_log_term > last_term(raft[n].log)
                            \/ /\ b.last_log_term = last_term(raft[n].log)
                               /\ b.last_log_index >= size(raft[n].log)
               IN  /\ raft'[n].current_term = term
                   /\ raft'[n].voted_for = IF ok THEN b.candidate_id ELSE vote
                   /\ \E r \in net' \ net :
                        /\ r.src = n /\ r.dest = m.src
                        /\ r.body.type = "request_vote_res"
                        /\ r.body.in_reply_to = b.msg_id
                        /\ r.body.term = raft'[n].current_term
                        /\ r.body.vote_granted = ok]_vars

\* C15 case: a node that has cast no vote in the candidate's term has
\* refused its vote, its log being ahead of the candidate's.
VoteGrantRuleCase ==
    \E r \in net :
        /\ IsReply(r) /\ r.body.type = "request_vote_res"
        /\ ~r.body.vote_granted
        /\ raft[r.src].voted_for = Nil
        /\ raft[r.src].current_term = r.body.term
        /\ raft[r.dest].state = "candidate"
        /\ raft[r.dest].current_term = r.body.term
        /\ size(raft[r.dest].log) < size(raft[r.src].log)

\* C16: a step that delivers an append_entries whose term is lower than
\* the receiver's current_term replies success = false with the receiver's
\* term and leaves the receiver's log, commit_index, leader, role,
\* current_term and voted_for as they were.
StaleAppendRefused ==
    [][\A m \in net :
        (/\ m \notin net' /\ ~IsReply(m) /\ m.body.type = "append_entries"
         /\ m.body.term < raft[m.dest].current_term)
            => LET n == m.dest IN
                /\ raft'[n].log = raft[n].log
                /\ raft'[n].commit_index = raft[n].commit_index
                /\ raft'[n].leader = raft[n].leader
                /\ raft'[n].state = raft[n].state
                /\ raft'[n].current_term = raft[n].current_term
                /\ raft'[n].voted_for = raft[n].voted_for
                /\ \E r \in net' \ net :
                        /\ r.src = n /\ r.dest = m.src
                        /\ r.body.type = "append_entries_res"
                        /\ r.body.in_reply_to = m.body.msg_id
                        /\ ~r.body.success
                        /\ r.body.term = raft[n].current_term]_vars

\* C16 case: a node has refused the append_entries of a leader of a lower
\* term than its own.
StaleAppendRefusedCase ==
    \E r \in net :
        /\ IsReply(r) /\ r.body.type = "append_entries_res"
        /\ ~r.body.success
        /\ raft[r.dest].state = "leader"
        /\ r.body.term > raft[r.dest].current_term

StepsDownOnAppend ==
    [][\A m \in net :
        (/\ m \notin net' /\ ~IsReply(m) /\ m.body.type = "append_entries"
         /\ raft[m.dest].state \in {"leader", "candidate"}
         /\ m.body.term > raft[m.dest].current_term)
            => LET n == m.dest IN
                /\ raft'[n].current_term = m.body.term
                /\ raft'[n].voted_for = Nil
                /\ raft'[n].state = "follower"
                /\ raft'[n].leader = m.body.leader_id
                /\ raft'[n].next_index = NoMap
                /\ raft'[n].match_index = NoMap
                /\ \E r \in net' \ net :
                        /\ r.src = n /\ r.dest = m.src
                        /\ r.body.type = "append_entries_res"
                        /\ r.body.in_reply_to = m.body.msg_id
                        /\ r.body.term = m.body.term]_vars

\* the request with operation op that a client sends node n next
ClientMsg(n, op) == [src |-> "c1", dest |-> n, body |-> op @@ [msg_id |-> reqs + 1]]

\* the read, write and cas messages that node n may read in this step: a
\* client's next request, or a request in flight that a node passed on
Requests(n) ==
    {ClientMsg(n, op) : op \in ClientOps}
        \cup {m \in net : /\ m.dest = n /\ ~IsReply(m)
                          /\ m.body.type \in {"read", "write", "cas"}}

\* this step is node n reading msg and handling it
Takes(n, msg) ==
    LET c == process_msg(Ctx(raft[n]), msg) IN
        /\ IF msg \in net THEN reqs' = reqs ELSE reqs' = reqs + 1
        /\ raft' = [raft EXCEPT ![n] = c.s]
        /\ net' = (net \ {msg}) \cup {x \in c.out : x.dest \in Nodes}
        /\ toClient' = toClient (+) BagOf({x \in c.out : x.dest \notin Nodes})

\* C19: a step in which an initialized node that is not leader and knows
\* no leader reads a read, write or cas sends the sender one more error of
\* code 11 whose in_reply_to is the msg_id of the request, and leaves the
\* node's log, commit_index and KV state as they were.
NoLeaderError ==
    [][\A n \in Nodes : \A msg \in Requests(n) :
        (/\ Takes(n, msg)
         /\ raft[n].node_id = n
         /\ raft[n].state \in {"follower", "candidate"}
         /\ raft[n].leader = Nil)
            => /\ raft'[n].log = raft[n].log
               /\ raft'[n].commit_index = raft[n].commit_index
               /\ raft'[n].kv = raft[n].kv
               /\ \E r \in DOMAIN toClient' :
                    /\ r.src = n /\ r.dest = msg.src
                    /\ r.body.type = "error" /\ r.body.code = 11
                    /\ r.body.in_reply_to = msg.body.msg_id
                    /\ r \notin DOMAIN toClient]_vars

\* C19 case: a node that is not leader and knows no leader has answered a
\* client with error 11.
NoLeaderErrorCase ==
    \E r \in DOMAIN toClient :
        /\ r.body.type = "error" /\ r.body.code = 11
        /\ r.src \in Nodes
        /\ raft[r.src].state \in {"follower", "candidate"}
        /\ raft[r.src].leader = Nil
        /\ reqs = r.body.in_reply_to

\* C20: a step in which a leader reads a read, write or cas appends to its
\* log exactly one entry, of its current term and with the request's body
\* and client = the sender as op; the step sends no message and leaves
\* commit_index, last_applied and the KV state as they were.
LeaderIntake ==
    [][\A n \in Nodes : \A msg \in Requests(n) :
        (Takes(n, msg) /\ raft[n].state = "leader")
            => /\ raft'[n].log = raft[n].log \o
                    <<[term |-> raft[n].current_term,
                       op |-> [client |-> msg.src] @@ msg.body]>>
               /\ net' \subseteq net
               /\ toClient' = toClient
               /\ raft'[n].commit_index = raft[n].commit_index
               /\ raft'[n].last_applied = raft[n].last_applied
               /\ raft'[n].kv = raft[n].kv]_vars

\* C20 case: the last entry of a leader's log is the request a client sent
\* it last, not yet replicated, committed or answered.
LeaderIntakeCase ==
    \E n \in Nodes :
        /\ raft[n].state = "leader"
        /\ reqs >= 1
        /\ last(raft[n].log).op.type = "write"
        /\ last(raft[n].log).op.msg_id = reqs
        /\ last(raft[n].log).op.client = "c1"
        /\ raft[n].commit_index < size(raft[n].log)

\* C21: a step in which a node that is not leader and knows a leader reads
\* a read, write or cas puts exactly one message into the network, the
\* request with its src and body as they were and the known leader as
\* dest; the node's log stays as it was and no client is sent anything.
ProxiesToLeader ==
    [][\A n \in Nodes : \A msg \in Requests(n) :
        (/\ Takes(n, msg)
         /\ raft[n].state # "leader"
         /\ raft[n].leader # Nil)
            => /\ raft'[n].log = raft[n].log
               /\ toClient' = toClient
               /\ net' \ (net \ {msg}) =
                    {[src |-> msg.src, dest |-> raft[n].leader, body |-> msg.body]}]_vars

\* C21 case: a client's request is on its way from the node that read it
\* to the leader that node knows.
ProxiesToLeaderCase ==
    \E m \in net :
        /\ m.src = "c1" /\ m.body.type \in {"read", "write", "cas"}
        /\ m.body.msg_id = reqs
        /\ \E n \in Nodes : n # m.dest /\ raft[n].leader = m.dest

\* C22: a step in which a node in any role moves last_applied onto an
\* entry of its log moves it by one, to a committed entry, and gives the
\* node's KV state the result of applying that entry's op; the step sends
\* something exactly when the node is leader, and then it is one message,
\* to the entry's client, with in_reply_to the entry's msg_id.
AppliesInAnyRole ==
    [][\A n \in Nodes :
        (/\ raft'[n].last_applied # raft[n].last_applied
         /\ raft[n].last_applied + 1 <= size(raft[n].log))
            => LET i == raft[n].last_applied + 1
                   op == raft[n].log[i].op
               IN  /\ raft'[n].last_applied = i
                   /\ i <= raft[n].commit_index
                   /\ raft'[n].kv = apply(raft[n].kv, op).state
                   /\ raft'[n].state = raft[n].state
                   /\ net' = net
                   /\ (toClient' # toClient) <=> (raft[n].state = "leader")
                   /\ raft[n].state = "leader" =>
                        \E r \in DOMAIN toClient' :
                            /\ toClient' = toClient (+) BagOf({r})
                            /\ r.src = n /\ r.dest = op.client
                            /\ r.body.in_reply_to = op.msg_id]_vars

\* C22 case: a node that has never led has applied a write to its KV state
\* and has sent the client nothing, and the leader has answered the write.
AppliesInAnyRoleCase ==
    \E n \in Nodes : \E l \in Nodes :
        /\ \A p \in elected : p[1] # n
        /\ raft[n].last_applied >= 2 /\ raft[n].kv # <<>>
        /\ \A r \in DOMAIN toClient : r.src # n \/ r.dest = "c0"
        /\ Answered(l, 1)

\* C23: a step that applies op to KV state kv answers the op's client, with
\* in_reply_to the op's msg_id, and follows the table: a read answers
\* read_ok with the stored value, or error 20 when the key is absent; a
\* write stores the value and answers write_ok; a cas answers error 20 when
\* the key is absent, error 22 when the stored value is not from, and
\* otherwise stores to and answers cas_ok.  The state is as before except
\* for the key of a write or of a cas that answers cas_ok.
ApplyTable ==
    [][\A op \in KVOps : \A r \in DOMAIN toClient' :
        applied'["n1"] = <<[index |-> 0, op |-> op]>>
            => LET kv == raft["n1"].kv
                   kv2 == raft'["n1"].kv
                   b == r.body
                   k == op.key
                   has == k \in DOMAIN kv
                   stores == \/ op.type = "write"
                             \/ op.type = "cas" /\ has /\ kv[k] = op.from
               IN  /\ r.dest = op.client /\ b.in_reply_to = op.msg_id
                   /\ op.type = "read" /\ has => b.type = "read_ok" /\ b.value = kv[k]
                   /\ op.type = "read" /\ ~has => b.type = "error" /\ b.code = 20
                   /\ op.type = "write" => b.type = "write_ok" /\ kv2[k] = op.value
                   /\ op.type = "cas" /\ ~has => b.type = "error" /\ b.code = 20
                   /\ op.type = "cas" /\ has /\ kv[k] # op.from
                        => b.type = "error" /\ b.code = 22
                   /\ op.type = "cas" /\ has /\ kv[k] = op.from
                        => b.type = "cas_ok" /\ kv2[k] = op.to
                   /\ DOMAIN kv2 = DOMAIN kv \cup (IF stores THEN {k} ELSE {})
                   /\ \A j \in DOMAIN kv : (j # k \/ ~stores) => kv2[j] = kv[j]]_vars

\* C23 case: a cas whose from is not the stored value has been answered
\* with error 22 and the value is still stored.
ApplyTableCase ==
    /\ applied["n1"] # <<>>
    /\ LET op == applied["n1"][1].op IN
        /\ op.type = "cas"
        /\ op.key \in DOMAIN raft["n1"].kv
        /\ raft["n1"].kv[op.key] # op.from /\ raft["n1"].kv[op.key] # op.to
        /\ \E r \in DOMAIN toClient : r.body.type = "error" /\ r.body.code = 22

\* reply m finds at its receiver the callback of an RPC that the receiver
\* sent in another term, or in the role (candidate for a request_vote,
\* leader for an append_entries) that it has left since, and the reply's
\* term is not above the receiver's
Stale(m) ==
    /\ IsReply(m)
    /\ m.body.in_reply_to \in DOMAIN raft[m.dest].callbacks
    /\ m.body.term <= raft[m.dest].current_term
    /\ LET cb == raft[m.dest].callbacks[m.body.in_reply_to] IN
        \/ cb.term # raft[m.dest].current_term
        \/ cb.kind = "handle" /\ raft[m.dest].state # "candidate"
        \/ cb.kind = "handler" /\ raft[m.dest].state # "leader"

\* C24: a step that delivers a stale reply leaves the receiver's role,
\* current_term, voted_for, next_index, match_index, commit_index, votes
\* and log as they were.
StaleReplyIgnored ==
    [][\A m \in net :
        (m \notin net' /\ Stale(m))
            => LET n == m.dest IN
                /\ raft'[n].state = raft[n].state
                /\ raft'[n].current_term = raft[n].current_term
                /\ raft'[n].voted_for = raft[n].voted_for
                /\ raft'[n].next_index = raft[n].next_index
                /\ raft'[n].match_index = raft[n].match_index
                /\ raft'[n].commit_index = raft[n].commit_index
                /\ raft'[n].votes = raft[n].votes
                /\ raft'[n].log = raft[n].log]_vars

\* C24 case: a vote that a candidate was granted reaches it when it has
\* become leader or has started a later term.
StaleReplyIgnoredCase ==
    \E m \in net :
        /\ Stale(m)
        /\ m.body.type = "request_vote_res" /\ m.body.vote_granted
        /\ m.src \notin raft[m.dest].votes

\* every callback a node holds, and every RPC of the node in flight, has a
\* msg_id below the node's next_msg_id, and no two RPCs of a node in flight
\* share one
FreshIds ==
    /\ \A n \in Nodes : \A k \in DOMAIN raft[n].callbacks : k < raft[n].next_msg_id
    /\ \A m \in net :
        (~IsReply(m) /\ m.src \in Nodes)
            => /\ m.body.msg_id < raft[m.src].next_msg_id
               /\ \A x \in net :
                    (~IsReply(x) /\ x.src = m.src /\ x.body.msg_id = m.body.msg_id)
                        => x = m

\* a message in flight that carries an in_reply_to for which its receiver
\* holds no callback, whatever its type, would change nothing at the
\* receiver and have it send nothing
StrayDropped ==
    \A m \in net :
        LET c == Ctx(raft[m.dest]) IN
        IF IsReply(m)
        THEN m.body.in_reply_to \notin DOMAIN c.s.callbacks => process_msg(c, m) = c
        ELSE \A k \in (0..MaxMsgId) \ DOMAIN c.s.callbacks :
                process_msg(c, Echoed(m, k)) = c

\* C25: msg_ids of RPCs are fresh and increasing: a step gives a node a
\* new callback only under a msg_id from its old next_msg_id up to its new
\* one, and no callback or RPC in flight is at or above next_msg_id; a step
\* that delivers a reply for which the receiver holds the callback removes
\* that callback and no other; and a message whose in_reply_to names no
\* callback of its receiver (a reply read a second time, or a message of a
\* type that has a handler) changes nothing and makes the receiver send
\* nothing.
CallbackOnce ==
    /\ [](FreshIds /\ StrayDropped)
    /\ [][\A n \in Nodes :
            /\ raft[n].next_msg_id <= raft'[n].next_msg_id
            /\ \A k \in DOMAIN raft'[n].callbacks \ DOMAIN raft[n].callbacks :
                    raft[n].next_msg_id <= k /\ k < raft'[n].next_msg_id
            /\ \A m \in net :
                    (/\ m \notin net' /\ m.dest = n /\ IsReply(m)
                     /\ m.body.in_reply_to \in DOMAIN raft[n].callbacks)
                        => DOMAIN raft'[n].callbacks =
                                DOMAIN raft[n].callbacks \ {m.body.in_reply_to}]_vars

\* C25 case: a reply is in flight to a node that has read it before and no
\* longer holds its callback.
CallbackOnceCase ==
    \E m \in net :
        /\ IsReply(m)
        /\ m.body.in_reply_to \notin DOMAIN raft[m.dest].callbacks
        /\ m.body.in_reply_to < raft[m.dest].next_msg_id
        /\ m.body.type = "request_vote_res" /\ m.body.vote_granted
        /\ m.src \in raft[m.dest].votes

\* the number of init_ok messages that node n has sent
InitOks(n) ==
    LET oks == {m \in DOMAIN toClient : m.body.type = "init_ok" /\ m.src = n}
    IN  IF oks = {} THEN 0 ELSE toClient[CHOOSE m \in oks : TRUE]

\* C26: a node never sends a second init_ok, and every node of the cluster
\* sends its one init_ok in the end.
InitAnswered ==
    /\ [](\A n \in Nodes : InitOks(n) <= 1 /\ InitOks("nil") = 0)
    /\ \A n \in Range(Env.nodes) : <>(InitOks(n) = 1)

\* the role changes of the transition table; a node leaves nascent only in
\* the step that reads its init and sends its init_ok
RoleChange(n) ==
    LET a == raft[n].state
        b == raft'[n].state
    IN  \/ a = b /\ (a = "candidate" =>
                        raft'[n].current_term \in {raft[n].current_term, raft[n].current_term + 1})
        \/ a = "nascent" /\ b = "follower" /\ raft'[n].node_id = n
             /\ InitOks(n) = 0 /\ InitOks(n)' = 1
        \/ a = "follower" /\ b = "candidate"
        \/ a = "candidate" /\ b = "leader"
        \/ a \in {"candidate", "leader"} /\ b = "follower"

\* C27: every step changes every node's role along the transition table: no
\* node leaves nascent but by its init, becomes leader but from candidate, or
\* becomes candidate from leader or nascent.
RoleTransitions == [][\A n \in Nodes : RoleChange(n)]_vars

\* C28: a leader's next_index is at least 2 for every other node, and every
\* append_entries in flight has prev_log_index at least 1.
NextIndexFloor ==
    /\ \A n \in Nodes : raft[n].state = "leader" =>
           \A o \in OtherSet(raft[n]) : raft[n].next_index[o] >= 2
    /\ \A m \in net : m.body.type = "append_entries" => m.body.prev_log_index >= 1

\* how many elements of xs are at least v, below v, at most v
AtLeast(xs, v) == Cardinality({i \in DOMAIN xs : xs[i] >= v})
Below(xs, v) == Cardinality({i \in DOMAIN xs : xs[i] < v})
AtMost(xs, v) == Cardinality({i \in DOMAIN xs : xs[i] <= v})

\* v stands at 0-based position p of the ascending sort of xs
SortedAt(xs, p, v) ==
    /\ \E i \in DOMAIN xs : xs[i] = v
    /\ Below(xs, v) <= p
    /\ p < AtMost(xs, v)

\* C29: the median of the match indices is the element at position
\* len - (len div 2 + 1) of their ascending sort, which is the largest value
\* that a majority of them reach; [0,1,2] gives 1, [0,0,2] gives 0,
\* [2,2,3] gives 2 and [1,2,3,4,5] gives 3.
MedianRule ==
    \A v \in committed :
        LET xs == match_index(raft["n1"])
            len == Len(xs)
        IN  /\ SortedAt(xs, len - ((len \div 2) + 1), v)
            /\ AtLeast(xs, v) >= (len \div 2) + 1
            /\ \A w \in 0..MaxMatch : w > v => AtLeast(xs, w) < (len \div 2) + 1
            /\ xs = <<0, 1, 2>> => v = 1
            /\ xs = <<0, 0, 2>> => v = 0
            /\ xs = <<2, 2, 3>> => v = 2
            /\ xs = <<1, 2, 3, 4, 5>> => v = 3

\* the median of four match indices with a tie: [3,0,3,1] gives 1
MedianRuleCase ==
    /\ match_index(raft["n1"]) = <<3, 0, 3, 1>>
    /\ committed = {1}

\* C30: every node's log is non-empty and begins with the default entry of
\* term 0 and no op, whatever append_entries the node has handled.
SentinelKept ==
    \A n \in Nodes : size(raft[n].log) >= 1 /\ get(raft[n].log, 1) = [term |-> 0, op |-> NoOp]

\* n3 has accepted an append_entries at prev_log_index 1 and then handled the
\* append_entries of term 2 that carries prev_log_index 0
SentinelKeptCase ==
    /\ raft["n3"].state = "follower"
    /\ raft["n3"].current_term = 2
    /\ raft["n3"].leader = "n1"
    /\ size(raft["n3"].log) = 2
    /\ raft["n1"].next_index["n3"] = 1
    /\ \A m \in net : ~(m.dest = "n3" /\ m.body.type = "append_entries")
    /\ get(raft["n3"].log, 1) = [term |-> 0, op |-> NoOp]

\* C31: along every node's log the terms of the entries never decrease, and
\* no entry has a term above the node's current_term.
LogTermsOrdered ==
    \A n \in Nodes :
        /\ \A i, j \in 1..size(raft[n].log) :
               i < j => get(raft[n].log, i).term <= get(raft[n].log, j).term
        /\ \A i \in 1..size(raft[n].log) :
               get(raft[n].log, i).term <= raft[n].current_term

\* a node that is not leader holds entries of two terms after the default
\* entry, received through append_entries
LogTermsOrderedCase ==
    \E n \in Nodes :
        /\ raft[n].state = "follower"
        /\ size(raft[n].log) >= 3
        /\ get(raft[n].log, 2).term = 1
        /\ get(raft[n].log, size(raft[n].log)).term = 2

\* how many messages of a type the lock server has sent
LockSent(type) ==
    LET S == {m \in DOMAIN toClient : m.body.type = type} IN Cardinality(S)

\* the lock_ok and the other messages that a step of the lock server sends
Granted == {m \in DOMAIN toClient' : m \notin DOMAIN toClient /\ m.body.type = "lock_ok"}

Refused == {m \in DOMAIN toClient' : m \notin DOMAIN toClient /\ m.body.type = "error"}

Released == {m \in DOMAIN toClient' : m \notin DOMAIN toClient /\ m.body.type = "unlock_ok"}

\* the grants not yet released are at most one, and one exactly when the
\* server has a holder
OneHolder ==
    /\ LockSent("lock_ok") - LockSent("unlock_ok") \in {0, 1}
    /\ LockSent("lock_ok") - LockSent("unlock_ok") = 1 <=> raft["n1"].acquired # NoHolder

\* a lock_ok answers the lock just read when nobody holds the lock, or goes
\* to the oldest queued request in the step that answers the holder's
\* unlock with unlock_ok
GrantRule ==
    LET s == raft["n1"]
        msg == applied'["n1"][1]
    IN  \A g \in Granted :
            /\ Granted = {g}
            /\ \/ /\ s.acquired = NoHolder
                   /\ msg.body.type = "lock"
                   /\ g.dest = msg.src /\ g.body.in_reply_to = msg.body.msg_id
                   /\ Released = {}
                   /\ raft'["n1"].acquired = msg
               \/ /\ s.acquired # NoHolder
                   /\ msg.body.type = "unlock" /\ msg.src = s.acquired.src
                   /\ \E u \in Released :
                          u.dest = msg.src /\ u.body.in_reply_to = msg.body.msg_id
                   /\ s.requests # <<>>
                   /\ g.dest = Head(s.requests).src
                   /\ g.body.in_reply_to = Head(s.requests).body.msg_id
                   /\ raft'["n1"].acquired = Head(s.requests)
                   /\ raft'["n1"].requests = Tail(s.requests)

\* an unlock from a client that does not hold the lock gets error 22 and
\* changes neither the holder nor the queue
RefuseRule ==
    LET s == raft["n1"]
        msg == applied'["n1"][1]
    IN  (msg.body.type = "unlock" /\ (s.acquired = NoHolder \/ s.acquired.src # msg.src)) =>
            /\ \E e \in Refused :
                   /\ Refused = {e}
                   /\ e.dest = msg.src /\ e.body.in_reply_to = msg.body.msg_id
                   /\ e.body.code = 22
            /\ Granted = {} /\ Released = {}
            /\ raft'["n1"].acquired = s.acquired
            /\ raft'["n1"].requests = s.requests

\* C32: the single-server lock has at most one holder at a time; a lock_ok
\* is sent only when there is no holder or as the hand-off to the oldest
\* queued request when the holder's unlock is answered, and an unlock from a
\* client that is not the holder gets error 22 and changes nothing.
LockMutex == [](OneHolder) /\ [][GrantRule /\ RefuseRule]_vars

\* c1 has held the lock and released it to the queued c2, and an unlock of
\* c3, which does not hold it, was refused
LockMutexCase ==
    /\ raft["n1"].acquired # NoHolder
    /\ raft["n1"].acquired.src = "c2"
    /\ \E u \in DOMAIN toClient : u.body.type = "unlock_ok" /\ u.dest = "c1"
    /\ \E g \in DOMAIN toClient : g.body.type = "lock_ok" /\ g.dest = "c2"
    /\ \E e \in DOMAIN toClient : e.body.type = "error" /\ e.dest = "c3" /\ e.body.code = 22

\* the step delivers m, an append_entries_res that passes the guard of the
\* handler waiting for it: the receiver is leader in the term of the RPC
Attributed(m) ==
    /\ m \in net /\ m \notin net'
    /\ m.body.type = "append_entries_res"
    /\ m.body.in_reply_to \in DOMAIN raft[m.dest].callbacks
    /\ raft[m.dest].callbacks[m.body.in_reply_to].kind = "handler"
    /\ raft[m.dest].callbacks[m.body.in_reply_to].term = raft[m.dest].current_term
    /\ raft[m.dest].state = "leader" /\ raft'[m.dest].state = "leader"

\* C33: a reply to an append_entries sent to follower f moves next_index and
\* match_index of f alone (next_index one down on failure, neither down on
\* success) and leaves those of every other follower as they were.
ReplyAttribution ==
    [][\A m \in net : Attributed(m) =>
          LET s == raft[m.dest]
              s1 == raft'[m.dest]
              f == m.src
          IN  /\ \A g \in OtherSet(s) \ {f} :
                     /\ s1.next_index[g] = s.next_index[g]
                     /\ s1.match_index[g] = s.match_index[g]
              /\ IF m.body.success
                 THEN /\ s1.next_index[f] >= s.next_index[f]
                      /\ s1.match_index[f] >= s.match_index[f]
                 ELSE /\ s1.next_index[f] = s.next_index[f] - 1
                      /\ s1.match_index[f] = s.match_index[f]]_vars

\* C34: on every node commit_index and last_applied are at most the size of
\* the log, whatever the order in which the append_entries of a leader
\* arrive.
IndexesWithinLog ==
    \A n \in Nodes :
        /\ raft[n].commit_index <= size(raft[n].log)
        /\ raft[n].last_applied <= size(raft[n].log)

\* the step hands node n the reply m to a request_vote of its current
\* candidacy: n is candidate, the callback that m answers was set in the
\* current term and is used up, and m grants the vote in that term
CountsVote(n, m) ==
    /\ m \in net /\ m.dest = n
    /\ m.body.type = "request_vote_res"
    /\ m.body.in_reply_to \in DOMAIN raft[n].callbacks
    /\ m.body.in_reply_to \notin DOMAIN raft'[n].callbacks
    /\ raft[n].callbacks[m.body.in_reply_to].kind = "handle"
    /\ raft[n].callbacks[m.body.in_reply_to].term = raft[n].current_term
    /\ raft[n].state = "candidate"
    /\ m.body.vote_granted
    /\ m.body.term = raft[n].current_term
    /\ raft'[n].current_term = raft[n].current_term
    /\ raft'[n].votes = raft[n].votes \cup {m.src}

\* C35: the votes of a candidacy begin with the candidate itself and grow
\* only by the sender of a granting reply of the current term to a
\* request_vote of this candidacy; a node becomes leader only in such a
\* step, and only with the votes of a majority of the cluster.
LeaderByMajority ==
    [][\A n \in Nodes :
          /\ raft'[n].votes # raft[n].votes =>
                \/ /\ raft'[n].state = "candidate"
                    /\ raft'[n].current_term = raft[n].current_term + 1
                    /\ raft'[n].votes = {n}
                \/ \E m \in net : CountsVote(n, m)
          /\ (raft'[n].state = "leader" /\ raft[n].state # "leader") =>
                /\ \E m \in net : CountsVote(n, m)
                /\ n \in raft'[n].votes
                /\ majority(Len(raft[n].node_ids)) <= Cardinality(raft'[n].votes)]_vars

\* a leader of term 2 that was a candidate of term 1, with a vote granted to
\* its first candidacy still in flight and not among its votes
LeaderByMajorityCase ==
    \E n \in Nodes :
        /\ raft[n].state = "leader" /\ raft[n].current_term = 2
        /\ Cardinality(raft[n].votes) = 2
        /\ \E m \in net :
               /\ m.dest = n /\ m.body.type = "request_vote_res"
               /\ m.body.vote_granted /\ m.body.term = 1
               /\ m.src \notin raft[n].votes

\* C36: the entries a node has applied are those at the indices 2, 3, ... up
\* to its last_applied, each once and in this order, and last_applied is at
\* most commit_index; a step that applies moves last_applied by one and
\* applies the entry found there.
AppliedInOrder ==
    /\ [](\A n \in Nodes :
            /\ Len(applied[n]) = raft[n].last_applied - 1
            /\ \A k \in 1..Len(applied[n]) : applied[n][k].index = k + 1
            /\ raft[n].last_applied <= raft[n].commit_index \/ raft[n].last_applied = 1)
    /\ [][\A n \in Nodes :
            raft'[n].last_applied # raft[n].last_applied =>
                /\ raft'[n].last_applied = raft[n].last_applied + 1
                /\ applied'[n] = Append(applied[n],
                        [index |-> raft'[n].last_applied,
                         op |-> get(raft[n].log, raft'[n].last_applied).op])]_vars

\* next_index and match_index are maps over the other nodes on a leader and
\* None on every other node
LeaderStatePresent ==
    \A n \in Nodes :
        IF raft[n].state = "leader"
        THEN /\ DOMAIN raft[n].next_index = OtherSet(raft[n])
             /\ DOMAIN raft[n].match_index = OtherSet(raft[n])
        ELSE raft[n].next_index = NoMap /\ raft[n].match_index = NoMap

\* C37: next_index and match_index exist exactly on a leader; the step that
\* makes a node leader sets next_index to the size of its log plus one and
\* match_index to 0 for every other node, and while the node stays leader no
\* match_index goes down.
LeaderState ==
    /\ []LeaderStatePresent
    /\ [][\A n \in Nodes :
            raft'[n].state = "leader" =>
                IF raft[n].state # "leader"
                THEN \A o \in OtherSet(raft'[n]) :
                        /\ raft'[n].next_index[o] = size(raft'[n].log) + 1
                        /\ raft'[n].match_index[o] = 0
                ELSE \A o \in OtherSet(raft[n]) :
                        raft'[n].match_index[o] >= raft[n].match_index[o]]_vars

\* a leader whose match_index has grown for one node while another node,
\* which led before, holds no leader state any more
LeaderStateCase ==
    \E n \in Nodes : \E o \in Nodes : \E p \in Nodes :
        /\ raft[n].state = "leader" /\ o # n /\ p # n
        /\ raft[n].match_index[o] >= 2
        /\ \E e \in elected : e[1] = p
        /\ raft[p].state # "leader" /\ raft[p].next_index = NoMap

\* the step-down tick makes a leader a follower that knows no leader and
\* holds no next_index and match_index, sends nothing and leaves every other
\* field alone; in any other role it does nothing
TickRule ==
    \A n \in Nodes :
        step_down_on_timeout(Ctx(raft[n])) =
            IF raft[n].state = "leader"
            THEN [Ctx(raft[n]) EXCEPT !.s =
                    [raft[n] EXCEPT !.state = "follower", !.leader = Nil,
                                    !.next_index = NoMap, !.match_index = NoMap]]
            ELSE Ctx(raft[n])

\* reading the reply m pushes the step-down deadline of its receiver back:
\* m answers a request_vote, or it answers an append_entries sent in the
\* current term and does not make the leader step down
Pushing(m) ==
    /\ IsReply(m)
    /\ m.body.in_reply_to \in DOMAIN raft[m.dest].callbacks
    /\ LET cb == raft[m.dest].callbacks[m.body.in_reply_to] IN
        \/ cb.kind = "handle"
        \/ /\ cb.kind = "handler"
           /\ cb.term = raft[m.dest].current_term
           /\ m.body.term <= raft[m.dest].current_term

\* on a leader nothing but such a reply sets the step-down deadline anew
DeadlineRule ==
    \A n \in Nodes : raft[n].state = "leader" =>
        /\ \A m \in net : m.dest = n =>
               (process_msg(Ctx(raft[n]), m).pushed <=> Pushing(m))
        /\ \A op \in ClientOps : ~process_msg(Ctx(raft[n]), ClientMsg(n, op)).pushed
        /\ ~step_down_on_timeout(Ctx(raft[n])).pushed
        /\ \A hb \in BOOLEAN : ~replicate_log(Ctx(raft[n]), hb).pushed
        /\ ~election(Ctx(raft[n])).pushed
        /\ ~advance_state_machine(Ctx(raft[n])).pushed

StateMachineReplies(client, msg_id) ==
    {r \in DOMAIN toClient :
        /\ r.dest = client
        /\ "in_reply_to" \in DOMAIN r.body /\ r.body.in_reply_to = msg_id
        /\ r.body.type \in {"read_ok", "write_ok", "cas_ok", "error"}
        /\ r.body.type = "error" => r.body.code # 11}

\* C39: for every client request in some node's log, the nodes together
\* have sent the client at most one reply from applying it.
OneReplyPerRequest ==
    \A n \in Nodes : \A i \in 2..size(raft[n].log) :
        LET op == get(raft[n].log, i).op
            rs == StateMachineReplies(op.client, op.msg_id)
        IN  /\ Cardinality(rs) <= 1
            /\ \A r \in rs : toClient[r] = 1

=============================================================================
